---- MODULE Spec2Model ----
(***************************************************************************)
(* A model of the session of goleveldb (leveldb/session.go): the manifest  *)
(* replay of recover(), the publish-on-success commit(), close(), the      *)
(* compaction planners pickCompaction() and getCompactionRange() with the  *)
(* expand() they call, and the helpers of a compaction: trivial(),         *)
(* shouldStopBefore() and isBaseLevelForKey().                             *)
(*                                                                         *)
(* session.go is translated line by line.  The collaborators it calls but  *)
(* that live in other files of the package (version staging, the session   *)
(* record codec, the manifest writers, the table-file helpers, the         *)
(* comparers) are modelled from the specification text and are marked so   *)
(* in MODEL_MAP.json.                                                      *)
(***************************************************************************)
EXTENDS Integers, Sequences, FiniteSets, TLC

(***************************************************************************)
(* Bounds of the model.                                                    *)
(***************************************************************************)
\* records appended to one manifest, the seeding record included
MaxLog == 3
\* file numbers the session may allocate (one per manifest it creates)
MaxFileNum == 3
\* records of a manifest found on disk by recover()
MaxRecs == 3
\* records one manifest may hold while the planner's pointer is advanced
MaxAdvance == 5
\* close() calls on one session
MaxCloses == 2
\* concurrent readers of the current version
NumReaders == 2

(***************************************************************************)
(* Program constants.                                                      *)
(***************************************************************************)
kNumLevels == 7
\* level-0 file count that gives level 0 a score of 1
kL0_CompactionTrigger == 2
\* byte ceiling of expand()'s growth step
kExpCompactionMaxBytes == 4
\* byte ceiling of the grandparent overlap
kMaxGrandParentOverlapBytes == 2

Levels == 0 .. (kNumLevels - 1)

\* total size at which level l >= 1 has a score of 1 (doubles per level)
RECURSIVE LevelMaxSize(_)
LevelMaxSize(l) == IF l <= 1 THEN 2 ELSE 2 * LevelMaxSize(l - 1)

(***************************************************************************)
(* Keys.  An internal key is <<user key, sequence>>; the nil key is <<>>.  *)
(***************************************************************************)
NoKey == <<>>

\* iKey.ukey()
UKey(ik) == ik[1]

\* the user comparer: Compare(a, b)
UCompare(a, b) == IF a < b THEN -1 ELSE IF a > b THEN 1 ELSE 0

\* the internal comparer: user key ascending, then sequence descending
ICompare(a, b) ==
    IF a[1] # b[1] THEN UCompare(a[1], b[1])
    ELSE IF a[2] > b[2] THEN -1
    ELSE IF a[2] < b[2] THEN 1
    ELSE 0

(***************************************************************************)
(* Table files.                                                            *)
(***************************************************************************)
TFile(n, lo, hi, sz) == [num |-> n, min |-> lo, max |-> hi, size |-> sz]

\* tFiles.size()
RECURSIVE TSize(_)
TSize(tt) == IF tt = <<>> THEN 0 ELSE Head(tt).size + TSize(Tail(tt))

Nums(tt) == {tt[i].num : i \in 1 .. Len(tt)}

\* tFiles.getRange(icmp): the smallest min and the largest max of the files
RECURSIVE GetRangeFrom(_, _, _)
GetRangeFrom(tt, lo, hi) ==
    IF tt = <<>> THEN <<lo, hi>>
    ELSE LET t == Head(tt)
         IN  GetRangeFrom(Tail(tt),
                 IF ICompare(t.min, lo) < 0 THEN t.min ELSE lo,
                 IF ICompare(t.max, hi) > 0 THEN t.max ELSE hi)

GetRange(tt) ==
    IF tt = <<>> THEN <<NoKey, NoKey>>
    ELSE GetRangeFrom(Tail(tt), Head(tt).min, Head(tt).max)

\* tFile.isOverlaps(min, max, ucmp): user-key ranges intersect
IsOverlaps(t, umin, umax) ==
    ~ (UCompare(UKey(t.max), umin) < 0 \/ UCompare(UKey(t.min), umax) > 0)

\* tFiles.getOverlaps(min, max, &r, disjSorted, ucmp): the files that overlap
\* [umin, umax], appended to r.  When the files may overlap each other
\* (disjSorted = FALSE) a hit that widens the range restarts the scan with
\* the wider range.
RECURSIVE GetOverlapsScan(_, _, _, _, _, _, _)
GetOverlapsScan(tf, i, umin, umax, r0, r, disjSorted) ==
    IF i > Len(tf) THEN r
    ELSE LET t == tf[i]
         IN  IF ~ IsOverlaps(t, umin, umax)
               THEN GetOverlapsScan(tf, i + 1, umin, umax, r0, r, disjSorted)
             ELSE IF ~ disjSorted /\ UCompare(UKey(t.min), umin) < 0
               THEN GetOverlapsScan(tf, 1, UKey(t.min), umax, r0, r0, disjSorted)
             ELSE IF ~ disjSorted /\ UCompare(UKey(t.max), umax) > 0
               THEN GetOverlapsScan(tf, 1, umin, UKey(t.max), r0, r0, disjSorted)
             ELSE GetOverlapsScan(tf, i + 1, umin, umax, r0, Append(r, t), disjSorted)

GetOverlaps(tf, umin, umax, r, disjSorted) ==
    GetOverlapsScan(tf, 1, umin, umax, r, r, disjSorted)

\* tFiles.sortByKey(icmp): by minimum key, then by file number
KeyLess(a, b) ==
    \/ ICompare(a.min, b.min) < 0
    \/ (ICompare(a.min, b.min) = 0 /\ a.num < b.num)

SortByKey(tt) == SortSeq(tt, KeyLess)

(***************************************************************************)
(* Versions.  cScore is the rational <<numerator, denominator>>; cSeek is  *)
(* the seek-compaction hint, <<>> when unset.                              *)
(***************************************************************************)
EmptyTables == [l \in Levels |-> <<>>]

\* &version{s: s}
NewVersion == [tables |-> EmptyTables, cLevel |-> 0, cScore |-> <<0, 1>>, cSeek |-> <<>>]

ScoreOf(tables, l) ==
    IF l = 0 THEN <<Len(tables[0]), kL0_CompactionTrigger>>
    ELSE <<TSize(tables[l]), LevelMaxSize(l)>>

ScoreGreater(a, b) == a[1] * b[2] > b[1] * a[2]

\* cScore >= 1
ScoreAtLeastOne(sc) == sc[1] >= sc[2]

\* version.computeCompaction(): the level of the highest score among the
\* levels that have a next level; a later level wins only with a strictly
\* higher score
RECURSIVE BestFrom(_, _, _, _)
BestFrom(tables, l, bestLevel, bestScore) ==
    IF l > kNumLevels - 2 THEN <<bestLevel, bestScore>>
    ELSE IF ScoreGreater(ScoreOf(tables, l), bestScore)
           THEN BestFrom(tables, l + 1, l, ScoreOf(tables, l))
           ELSE BestFrom(tables, l + 1, bestLevel, bestScore)

ComputeCompaction(tables) == BestFrom(tables, 0, -1, <<-1, 1>>)

(***************************************************************************)
(* Version staging: records folded into per-level added and deleted sets,  *)
(* then one finish().                                                      *)
(***************************************************************************)
\* version.newStaging()
NewStaging(base) ==
    [base |-> base, added |-> [l \in Levels |-> <<>>], deleted |-> [l \in Levels |-> {}]]

Without(tt, n) == SelectSeq(tt, LAMBDA t : t.num # n)

StageDelete(p, d) ==
    [p EXCEPT !.deleted[d.level] =
                  IF Len(p.base.tables[d.level]) > 0 THEN @ \cup {d.num} ELSE @,
              !.added[d.level] = Without(@, d.num)]

StageAdd(p, a) ==
    [p EXCEPT !.added[a.level] = Append(Without(@, a.file.num), a.file),
              !.deleted[a.level] = @ \ {a.file.num}]

RECURSIVE StageDeletes(_, _)
StageDeletes(p, ds) ==
    IF ds = <<>> THEN p ELSE StageDeletes(StageDelete(p, Head(ds)), Tail(ds))

RECURSIVE StageAdds(_, _)
StageAdds(p, as) ==
    IF as = <<>> THEN p ELSE StageAdds(StageAdd(p, Head(as)), Tail(as))

\* versionStaging.commit(r): the record's deletions, then its additions
StagingCommit(p, r) == StageAdds(StageDeletes(p, r.deletedTables), r.addedTables)

FinishLevel(p, l) ==
    LET kept == SelectSeq(p.base.tables[l],
                    LAMBDA t : t.num \notin p.deleted[l] /\ t.num \notin Nums(p.added[l]))
        nt   == kept \o p.added[l]
    IN  IF l = 0 THEN nt ELSE SortByKey(nt)

\* versionStaging.finish(): the new version, its compaction score computed
StagingFinish(p) ==
    LET tables == [l \in Levels |-> FinishLevel(p, l)]
        best   == ComputeCompaction(tables)
    IN  [tables |-> tables, cLevel |-> best[1], cScore |-> best[2], cSeek |-> <<>>]

\* version.spawn(r)
Spawn(v, r) == StagingFinish(StagingCommit(NewStaging(v), r))

TableSets(v) == [l \in Levels |-> {v.tables[l][i] : i \in 1 .. Len(v.tables[l])}]

(***************************************************************************)
(* Session records.  has is the set of scalar fields the record carries.   *)
(***************************************************************************)
recComparer == "comparer"
recJournalNum == "journalNum"
recNextNum == "nextNum"
recSeq == "seq"

\* &sessionRecord{}
EmptyRecord ==
    [has |-> {}, comparer |-> "", journalNum |-> 0, nextNum |-> 0, seq |-> 0,
     compactionPointers |-> <<>>, addedTables |-> <<>>, deletedTables |-> <<>>]

\* the name of the active comparer, s.cmp.cmp.Name()
CmpName == "cmpA"

\* sessionRecord.encode(w): the record as one manifest entry; bad marks an
\* entry that storage has damaged, and is never written
Encode(r) ==
    [has |-> r.has, comparer |-> r.comparer, journalNum |-> r.journalNum,
     nextNum |-> r.nextNum, seq |-> r.seq, cptrs |-> r.compactionPointers,
     adds |-> r.addedTables, dels |-> r.deletedTables, bad |-> FALSE]

\* sessionRecord.decode(r) into the record recover() reuses: a scalar the
\* entry carries overwrites the record's, list entries are appended to the
\* record's lists.  A damaged entry fails after its list entries were
\* appended and supplies no scalar.
Decode(rec, e) ==
    LET lists == [rec EXCEPT !.compactionPointers = @ \o e.cptrs,
                             !.addedTables = @ \o e.adds,
                             !.deletedTables = @ \o e.dels]
    IN  IF e.bad THEN [err |-> "decode", rec |-> lists]
        ELSE [err |-> "nil",
              rec |-> [lists EXCEPT
                  !.has = @ \cup e.has,
                  !.comparer = IF recComparer \in e.has THEN e.comparer ELSE @,
                  !.journalNum = IF recJournalNum \in e.has THEN e.journalNum ELSE @,
                  !.nextNum = IF recNextNum \in e.has THEN e.nextNum ELSE @,
                  !.seq = IF recSeq \in e.has THEN e.seq ELSE @]]

\* rec.resetCompactionPointers(); rec.resetAddedTables(); rec.resetDeletedTables()
ResetLists(rec) ==
    [rec EXCEPT !.compactionPointers = <<>>, !.addedTables = <<>>, !.deletedTables = <<>>]

\* for _, rp := range rec.compactionPointers { s.stCPtrs[rp.level] = iKey(rp.key) }
RECURSIVE SavePointers(_, _)
SavePointers(cptrs, ps) ==
    IF ps = <<>> THEN cptrs
    ELSE SavePointers([cptrs EXCEPT ![Head(ps).level] = Head(ps).key], Tail(ps))

NoPointers == [l \in Levels |-> NoKey]

(***************************************************************************)
(* The table files callers add and delete, and the records they commit.    *)
(* Level 0 holds files that overlap; levels 1 and 2 hold disjoint files.   *)
(***************************************************************************)
T1 == TFile(1, <<1, 5>>, <<6, 5>>, 1)
T2 == TFile(2, <<2, 5>>, <<3, 5>>, 1)
T3 == TFile(3, <<1, 2>>, <<2, 2>>, 1)
T4 == TFile(4, <<3, 2>>, <<4, 2>>, 1)
T5 == TFile(5, <<5, 2>>, <<6, 2>>, 1)
T6 == TFile(6, <<2, 1>>, <<5, 1>>, 1)

Entry(l, t) == [level |-> l, file |-> t]

Pool == {Entry(0, T1), Entry(0, T2), Entry(1, T3), Entry(1, T4), Entry(1, T5), Entry(2, T6)}

AddRec(es) == [EmptyRecord EXCEPT !.addedTables = es]

DelRec(e) == [EmptyRecord EXCEPT !.deletedTables = <<[level |-> e.level, num |-> e.file.num]>>]

\* what a compaction of T3 into level 2 commits: the input deleted, the
\* output added, the level's compaction pointer advanced
MoveRec ==
    [EmptyRecord EXCEPT !.deletedTables = <<[level |-> 1, num |-> 3]>>,
                        !.addedTables = <<Entry(2, T6)>>,
                        !.compactionPointers = <<[level |-> 1, key |-> T3.max]>>]

CommitRecs ==
    {AddRec(<<Entry(0, T1)>>), AddRec(<<Entry(0, T2)>>), AddRec(<<Entry(1, T3)>>),
     DelRec(Entry(1, T3)), MoveRec}

(***************************************************************************)
(* State.                                                                  *)
(***************************************************************************)
VARIABLES
    stFileNum,      \* session.stFileNum
    stJournalNum,   \* session.stJournalNum
    stSeq,          \* session.stSeq
    stCPtrs,        \* session.stCPtrs: level -> key, NoKey when nil
    stVersion,      \* session.stVersion
    manifest,       \* session.manifest / manifestWriter: is a writer open
    manifestFile,   \* session.manifestFile: its number, -1 when nil
    strict,         \* s.o.GetStrict(opt.StrictManifest)
    storManifest,   \* storage: the number of the current manifest, -1 when none
    storLog,        \* storage: the entries of the current manifest
    storOther,      \* storage: does it hold a file other than the manifest
    phase,          \* the caller: "new" after newSession, "open" once usable,
                    \* "failed" once the open was given up, "closed" once
                    \* close() was called
    ret,            \* the last call: its name, its error, its argument
    pick,           \* the last pickCompaction() or getCompactionRange(): what
                    \* it returned
    rr,             \* the files picked since the pointer was last left alone
    job,            \* the caller of a manual compaction: the range it asked
                    \* for, the last key it passed to each helper of the
                    \* compaction, and what the last helper call returned
    closes,         \* how often each collaborator of the session was closed
    wr,             \* the writer inside commit(): its position and locals
    seen,           \* reader -> the version it read last, <<>> before it reads
    published       \* the versions the statement-by-statement commit() has
                    \* made current so far, in order, the first one included

sessVars == <<stFileNum, stJournalNum, stSeq, stCPtrs, stVersion, manifest, manifestFile>>
storVars == <<storManifest, storLog, storOther>>
pickVars == <<pick, rr>>
concVars == <<wr, seen, published>>
restVars == <<job, closes, concVars>>
vars == <<sessVars, storVars, pickVars, restVars, strict, phase, ret>>

NoPick == [res |-> "none", level |-> 0, first |-> <<>>, c |-> <<>>]

\* no range was asked for and no helper of a compaction was called; cuts
\* counts the calls of shouldStopBefore that returned true
NoJob ==
    [umin |-> 0, umax |-> 0, lastStop |-> NoKey, lastBase |-> 0, out |-> FALSE, cuts |-> 0]

\* Close() calls received by the table operations, the block cache, the
\* manifest's journal writer and the manifest's file writer
NoCloses == [tops |-> 0, cache |-> 0, journal |-> 0, writer |-> 0]

\* no commit() is running
IdleWriter == [pc |-> "idle", r |-> EmptyRecord, nv |-> <<>>, err |-> "nil"]

Readers == 1 .. NumReaders

RestInit ==
    /\ job = NoJob
    /\ closes = NoCloses
    /\ wr = IdleWriter
    /\ seen = [p \in Readers |-> <<>>]
    /\ published = <<stVersion>>

Ret(op, err, read) == [op |-> op, err |-> err, read |-> read]

ManifestErrors ==
    {"ErrManifest: manifest file missing", "ErrManifest: decode",
     "ErrManifest: missing comparer name", "ErrManifest: comparer mismatch",
     "ErrManifest: missing next file number", "ErrManifest: missing journal file number",
     "ErrManifest: missing seq number"}

(***************************************************************************)
(* The manifest writers.                                                   *)
(***************************************************************************)
RECURSIVE PointerList(_, _)
PointerList(cptrs, l) ==
    IF l > kNumLevels - 1 THEN <<>>
    ELSE (IF cptrs[l] # NoKey THEN <<[level |-> l, key |-> cptrs[l]]>> ELSE <<>>)
         \o PointerList(cptrs, l + 1)

\* session.fillRecord(r, snapshot), fnum being s.stFileNum at the call
FillRecord(r, snapshot, fnum) ==
    LET r1 == [r EXCEPT !.has = @ \cup {recNextNum}, !.nextNum = fnum + 1]
    IN  IF ~ snapshot THEN r1
        ELSE [r1 EXCEPT
                 !.has = @ \cup {recJournalNum, recSeq, recComparer},
                 !.journalNum = IF recJournalNum \in r1.has THEN @ ELSE stJournalNum,
                 !.seq = IF recSeq \in r1.has THEN @ ELSE stSeq,
                 !.compactionPointers = @ \o PointerList(stCPtrs, 0),
                 !.comparer = CmpName]

RECURSIVE TableList(_, _)
TableList(v, l) ==
    IF l > kNumLevels - 1 THEN <<>>
    ELSE [i \in 1 .. Len(v.tables[l]) |-> Entry(l, v.tables[l][i])] \o TableList(v, l + 1)

\* version.fillRecord(r): the version's table listing
VersionFillRecord(v, r) == [r EXCEPT !.addedTables = @ \o TableList(v, 0)]

\* session.recordCommited(r)
RecordCommited(r) ==
    /\ stJournalNum' = IF recJournalNum \in r.has THEN r.journalNum ELSE stJournalNum
    /\ stSeq' = IF recSeq \in r.has THEN r.seq ELSE stSeq
    /\ stCPtrs' = SavePointers(stCPtrs, r.compactionPointers)

\* session.newManifest(rec, v) when every write succeeds: a new manifest
\* file holding one record, the session's fields and v's table listing,
\* becomes the current manifest and replaces the old one
NewManifestOk(rec, v) ==
    LET filled == VersionFillRecord(v, FillRecord(rec, TRUE, stFileNum + 1))
    IN  /\ stFileNum' = stFileNum + 1
        /\ RecordCommited(filled)
        /\ manifest' = TRUE
        /\ manifestFile' = stFileNum
        /\ storManifest' = stFileNum
        /\ storLog' = <<Encode(filled)>>
        /\ UNCHANGED storOther

\* session.flushManifest(rec) when every write succeeds
FlushManifestOk(rec) ==
    LET filled == FillRecord(rec, FALSE, stFileNum)
    IN  /\ storLog' = Append(storLog, Encode(filled))
        /\ RecordCommited(filled)
        /\ UNCHANGED <<stFileNum, manifest, manifestFile, storManifest, storOther>>

\* either writer when a write fails: nothing reaches the manifest, the
\* file number is given back
ManifestWriteFails ==
    UNCHANGED <<stFileNum, stJournalNum, stSeq, stCPtrs, manifest, manifestFile, storVars>>

(***************************************************************************)
(* recover(): the replay loop over the manifest's entries.                 *)
(***************************************************************************)
\* ReplayStep without the three resets after a decoded record
ReplayStepKeepsDecoded(st, e, strictOpt) ==
    LET d == Decode(st.rec, e)
    IN  IF d.err = "nil"
          THEN [st EXCEPT !.rec = d.rec,
                          !.cptrs = SavePointers(st.cptrs, d.rec.compactionPointers),
                          !.staging = StagingCommit(st.staging, d.rec),
                          !.read = @ + 1]
        ELSE IF strictOpt
          THEN [st EXCEPT !.rec = d.rec, !.err = "ErrManifest: decode", !.read = @ + 1]
        ELSE [st EXCEPT !.rec = ResetLists(d.rec), !.read = @ + 1]

\* ReplayStep saving the pointers before it looks at the decode error
ReplayStepSavesFirst(st, e, strictOpt) ==
    LET d == Decode(st.rec, e)
        saved == SavePointers(st.cptrs, d.rec.compactionPointers)
    IN  IF d.err = "nil"
          THEN [st EXCEPT !.rec = ResetLists(d.rec),
                          !.cptrs = saved,
                          !.staging = StagingCommit(st.staging, d.rec),
                          !.read = @ + 1]
        ELSE IF strictOpt
          THEN [st EXCEPT !.rec = d.rec, !.cptrs = saved,
                          !.err = "ErrManifest: decode", !.read = @ + 1]
        ELSE [st EXCEPT !.rec = ResetLists(d.rec), !.cptrs = saved, !.read = @ + 1]

\* ReplayStep without the three resets after a skipped record
ReplayStepKeepsSkipped(st, e, strictOpt) ==
    LET d == Decode(st.rec, e)
    IN  IF d.err = "nil"
          THEN [st EXCEPT !.rec = ResetLists(d.rec),
                          !.cptrs = SavePointers(st.cptrs, d.rec.compactionPointers),
                          !.staging = StagingCommit(st.staging, d.rec),
                          !.read = @ + 1]
        ELSE IF strictOpt
          THEN [st EXCEPT !.rec = d.rec, !.err = "ErrManifest: decode", !.read = @ + 1]
        ELSE [st EXCEPT !.rec = d.rec, !.read = @ + 1]

\* one round of the loop for entry e (lines 136-151): the record after the
\* round, the staging area, the saved pointers, and whether recover returns
ReplayStep(st, e, strictOpt) ==
    LET d == Decode(st.rec, e)
    IN  IF d.err = "nil"
          THEN [st EXCEPT !.rec = ResetLists(d.rec),
                          !.cptrs = SavePointers(st.cptrs, d.rec.compactionPointers),
                          !.staging = StagingCommit(st.staging, d.rec),
                          !.read = @ + 1]
        ELSE IF strictOpt
          THEN [st EXCEPT !.rec = d.rec, !.err = "ErrManifest: decode", !.read = @ + 1]
        ELSE [st EXCEPT !.rec = ResetLists(d.rec), !.read = @ + 1]

\* the loop (lines 125-152); failAt is the call of jr.Next() that fails with
\* a read error, 0 when none does
RECURSIVE ReplayLoop(_, _, _, _, _)
ReplayLoop(log, i, strictOpt, failAt, st) ==
    IF failAt = i THEN [st EXCEPT !.err = "read error"]
    ELSE IF i > Len(log) THEN st
    ELSE LET st2 == ReplayStep(st, log[i], strictOpt)
         IN  IF st2.err # "nil" THEN st2
             ELSE ReplayLoop(log, i + 1, strictOpt, failAt, st2)

\* FieldCheck without the case for the sequence number
FieldCheckNoSeq(rec) ==
    IF recComparer \notin rec.has THEN "ErrManifest: missing comparer name"
    ELSE IF rec.comparer # CmpName THEN "ErrManifest: comparer mismatch"
    ELSE IF recNextNum \notin rec.has THEN "ErrManifest: missing next file number"
    ELSE IF recJournalNum \notin rec.has THEN "ErrManifest: missing journal file number"
    ELSE "nil"

\* the checks after end-of-stream (lines 154-165)
FieldCheck(rec) ==
    IF recComparer \notin rec.has THEN "ErrManifest: missing comparer name"
    ELSE IF rec.comparer # CmpName THEN "ErrManifest: comparer mismatch"
    ELSE IF recNextNum \notin rec.has THEN "ErrManifest: missing next file number"
    ELSE IF recJournalNum \notin rec.has THEN "ErrManifest: missing journal file number"
    ELSE IF recSeq \notin rec.has THEN "ErrManifest: missing seq number"
    ELSE "nil"

\* lines 120-165: replay from the current version, then the checks
Replay(log, strictOpt, failAt, base, cptrs) ==
    LET st0 == [rec |-> EmptyRecord, staging |-> NewStaging(base), cptrs |-> cptrs,
                err |-> "nil", read |-> 0]
        st  == ReplayLoop(log, 1, strictOpt, failAt, st0)
    IN  IF st.err # "nil" THEN st ELSE [st EXCEPT !.err = FieldCheck(st.rec)]

\* DeferredError that never looks at the storage's files
DeferredErrorAsIs(err, nfiles) == err

\* the deferred function (lines 100-108): a not-exist error becomes a
\* manifest error when storage lists any file; nfiles is len(files)
DeferredError(err, nfiles) ==
    IF err = "os.ErrNotExist" /\ nfiles > 0
      THEN "ErrManifest: manifest file missing"
      ELSE err

\* s.stor.GetFiles(storage.TypeAll): the number of files it lists;
\* manifestListed tells whether the manifest file itself is there
GetFilesCount(manifestListed) ==
    (IF storOther THEN 1 ELSE 0) + (IF manifestListed THEN 1 ELSE 0)

\* the caller after recover() failed: the plain not-exist error means a
\* fresh database, which it goes on to create; any other error ends the open
AfterError(err) == IF err = "os.ErrNotExist" THEN "new" ELSE "failed"

\* Recover storing the manifest file in the session as soon as it is open
RecoverInstallsFirst(io, failAt) ==
    /\ phase = "new"
    /\ IF storManifest = -1
         THEN /\ io = "ok" /\ failAt = 0
              /\ ret' = Ret("recover", DeferredError("os.ErrNotExist", GetFilesCount(FALSE)), 0)
              /\ phase' = AfterError(ret'.err)
              /\ UNCHANGED sessVars
       ELSE IF io = "open"
         THEN /\ failAt = 0
              /\ ret' = Ret("recover", "open error", 0)
              /\ phase' = "failed"
              /\ UNCHANGED sessVars
       ELSE IF io = "gone"
         THEN /\ failAt = 0
              /\ ret' = Ret("recover", DeferredError("os.ErrNotExist", GetFilesCount(FALSE)), 0)
              /\ phase' = AfterError(ret'.err)
              /\ UNCHANGED sessVars
       ELSE LET out == Replay(storLog, strict, failAt, stVersion, stCPtrs)
            IN  /\ (io = "read") = (failAt # 0)
                /\ failAt <= Len(storLog) + 1
                /\ ret' = Ret("recover", out.err, out.read)
                /\ IF out.err # "nil"
                     THEN /\ stCPtrs' = out.cptrs
                          /\ phase' = "failed"
                          /\ manifestFile' = storManifest
                          /\ UNCHANGED <<stFileNum, stJournalNum, stSeq, stVersion,
                                         manifest>>
                     ELSE /\ manifestFile' = storManifest
                          /\ stVersion' = StagingFinish(out.staging)
                          /\ stFileNum' = out.rec.nextNum
                          /\ stJournalNum' = out.rec.journalNum
                          /\ stSeq' = out.rec.seq
                          /\ stCPtrs' = SavePointers(out.cptrs, out.rec.compactionPointers)
                          /\ phase' = "open"
                          /\ UNCHANGED manifest
    /\ UNCHANGED <<storVars, pickVars, restVars, strict>>

\* recover().  io is what storage does: "ok", "open" (file.Open() fails),
\* "gone" (file.Open() finds the manifest file missing) or "read" (the
\* failAt-th jr.Next() fails).
Recover(io, failAt) ==
    /\ phase = "new"
    /\ IF storManifest = -1
         THEN /\ io = "ok" /\ failAt = 0
              /\ ret' = Ret("recover", DeferredError("os.ErrNotExist", GetFilesCount(FALSE)), 0)
              /\ phase' = AfterError(ret'.err)
              /\ UNCHANGED sessVars
       ELSE IF io = "open"
         THEN /\ failAt = 0
              /\ ret' = Ret("recover", "open error", 0)
              /\ phase' = "failed"
              /\ UNCHANGED sessVars
       ELSE IF io = "gone"
         THEN /\ failAt = 0
              /\ ret' = Ret("recover", DeferredError("os.ErrNotExist", GetFilesCount(FALSE)), 0)
              /\ phase' = AfterError(ret'.err)
              /\ UNCHANGED sessVars
       ELSE LET out == Replay(storLog, strict, failAt, stVersion, stCPtrs)
            IN  /\ (io = "read") = (failAt # 0)
                /\ failAt <= Len(storLog) + 1
                /\ ret' = Ret("recover", out.err, out.read)
                /\ IF out.err # "nil"
                     THEN /\ stCPtrs' = out.cptrs
                          /\ phase' = "failed"
                          /\ UNCHANGED <<stFileNum, stJournalNum, stSeq, stVersion,
                                         manifest, manifestFile>>
                     ELSE /\ manifestFile' = storManifest
                          /\ stVersion' = StagingFinish(out.staging)
                          /\ stFileNum' = out.rec.nextNum
                          /\ stJournalNum' = out.rec.journalNum
                          /\ stSeq' = out.rec.seq
                          /\ stCPtrs' = SavePointers(out.cptrs, out.rec.compactionPointers)
                          /\ phase' = "open"
                          /\ UNCHANGED manifest
    /\ UNCHANGED <<storVars, pickVars, restVars, strict>>

(***************************************************************************)
(* create() and commit().                                                  *)
(***************************************************************************)
\* create(): newManifest(nil, nil), called once recover() has reported a
\* fresh database
Create(io) ==
    /\ phase = "new"
    /\ ret.op = "recover" /\ ret.err = "os.ErrNotExist"
    /\ stFileNum < MaxFileNum
    /\ IF io = "ok"
         THEN /\ NewManifestOk(EmptyRecord, stVersion)
              /\ phase' = "open"
              /\ ret' = Ret("create", "nil", 0)
         ELSE /\ ManifestWriteFails
              /\ ret' = Ret("create", "write error", 0)
              /\ UNCHANGED phase
    /\ UNCHANGED <<stVersion, pickVars, restVars, strict>>

\* CommitVersion publishing the candidate whatever the write returned
CommitAll(cur, nv, err) == nv

\* lines 186-189: the version that is current when commit returns

CommitVersion(cur, nv, err) == IF err = "nil" THEN nv ELSE cur

\* commit(r) (lines 175-192); io tells whether the manifest write succeeds
CommitOp(r, io) ==
    LET nv  == Spawn(stVersion, r)
        err == IF io = "ok" THEN "nil" ELSE "write error"
    IN  /\ IF io # "ok" THEN ManifestWriteFails
           ELSE IF ~ manifest THEN NewManifestOk(r, nv)
           ELSE FlushManifestOk(r)
        /\ stVersion' = CommitVersion(stVersion, nv, err)
        /\ ret' = Ret("commit", err, 0)
        /\ UNCHANGED <<strict, phase>>

\* a caller commits r
Commit(r, io) ==
    /\ phase = "open"
    /\ IF manifest THEN Len(storLog) < MaxLog ELSE stFileNum < MaxFileNum
    /\ CommitOp(r, io)
    /\ UNCHANGED <<pickVars, restVars>>

(***************************************************************************)
(* commit() statement by statement, beside readers of the current version. *)
(***************************************************************************)
\* line 177: nv := s.version_NB().spawn(r), held in a local
CommitSpawn(r) ==
    /\ phase = "open"
    /\ wr.pc = "idle"
    /\ IF manifest THEN Len(storLog) < MaxLog ELSE stFileNum < MaxFileNum
    /\ wr' = [pc |-> "spawned", r |-> r, nv |-> Spawn(stVersion, r), err |-> "nil"]
    /\ UNCHANGED <<sessVars, storVars, pickVars, job, closes, seen, published,
                   strict, phase, ret>>

\* VersionWhileWriting making the candidate current before it is written
VersionPublishedEarly(cur, nv) == nv

\* lines 179-184: the current version while the manifest is written; the
\* candidate is not stored before line 188
VersionWhileWriting(cur, nv) == cur

\* lines 179-184: the manifest write; io tells whether it succeeds
CommitWrite(io) ==
    /\ wr.pc = "spawned"
    /\ IF io # "ok" THEN ManifestWriteFails
       ELSE IF ~ manifest THEN NewManifestOk(wr.r, wr.nv)
       ELSE FlushManifestOk(wr.r)
    /\ stVersion' = VersionWhileWriting(stVersion, wr.nv)
    /\ wr' = [wr EXCEPT !.pc = "written",
                        !.err = IF io = "ok" THEN "nil" ELSE "write error"]
    /\ UNCHANGED <<pickVars, job, closes, seen, published, strict, phase, ret>>

\* lines 186-191: setVersion(nv) when the write returned nil, and the
\* return; published records the candidates of the commits that succeeded
CommitReturn ==
    /\ wr.pc = "written"
    /\ stVersion' = CommitVersion(stVersion, wr.nv, wr.err)
    /\ published' = IF wr.err = "nil" THEN Append(published, wr.nv) ELSE published
    /\ ret' = Ret("commit", wr.err, 0)
    /\ wr' = IdleWriter
    /\ UNCHANGED <<stFileNum, stJournalNum, stSeq, stCPtrs, manifest, manifestFile,
                   storVars, pickVars, job, closes, seen, strict, phase>>

\* a reader loads the current version: session.version()
ReadVersion(p) ==
    /\ phase = "open"
    /\ seen' = [seen EXCEPT ![p] = <<stVersion>>]
    /\ UNCHANGED <<sessVars, storVars, pickVars, job, closes, wr, published,
                   strict, phase, ret>>

(***************************************************************************)
(* pickCompaction() and the expand() it ends with.                         *)
(***************************************************************************)
\* FirstAfter taking a file whose maximum key equals the pointer
FirstAfterOrEqual(tt, i, cp) ==
    LET is == {j \in i .. Len(tt) : cp = NoKey \/ ICompare(tt[j].max, cp) >= 0}
    IN  IF is = {} THEN <<>> ELSE <<tt[CHOOSE j \in is : \A k \in is : j <= k]>>

\* the loop of lines 207-212 from file i on: the first file whose maximum
\* key is above the pointer, any file when the pointer is nil
RECURSIVE FirstAfter(_, _, _)
FirstAfter(tt, i, cp) ==
    IF i > Len(tt) THEN <<>>
    ELSE IF cp = NoKey \/ ICompare(tt[i].max, cp) > 0 THEN <<tt[i]>>
    ELSE FirstAfter(tt, i + 1, cp)

NoInput == [res |-> "nil", level |-> 0, t0 |-> <<>>, byScore |-> FALSE]

\* PickInitial giving up when no file is above the pointer
PickInitialNoWrap(v, cptrs) ==
    IF ScoreAtLeastOne(v.cScore)
      THEN LET t0 == FirstAfter(v.tables[v.cLevel], 1, cptrs[v.cLevel])
           IN  IF t0 # <<>>
                 THEN [res |-> "ok", level |-> v.cLevel, t0 |-> t0, byScore |-> TRUE]
                 ELSE NoInput
    ELSE IF v.cSeek # <<>>
      THEN [res |-> "ok", level |-> v.cSeek[1].level, t0 |-> <<v.cSeek[1].table>>,
            byScore |-> FALSE]
    ELSE NoInput

\* PickInitial starting every round at the first file of the level
PickInitialFirstFile(v, cptrs) ==
    IF ScoreAtLeastOne(v.cScore)
      THEN [res |-> "ok", level |-> v.cLevel, t0 |-> <<v.tables[v.cLevel][1]>>,
            byScore |-> TRUE]
    ELSE IF v.cSeek # <<>>
      THEN [res |-> "ok", level |-> v.cSeek[1].level, t0 |-> <<v.cSeek[1].table>>,
            byScore |-> FALSE]
    ELSE NoInput

\* lines 201-224: the level and the initial input file; "panic" is the
\* index out of range of tt[0] on an empty level
PickInitial(v, cptrs) ==
    IF ScoreAtLeastOne(v.cScore)
      THEN LET level == v.cLevel
               tt    == v.tables[level]
               t0    == FirstAfter(tt, 1, cptrs[level])
           IN  IF t0 # <<>>
                 THEN [res |-> "ok", level |-> level, t0 |-> t0, byScore |-> TRUE]
               ELSE IF tt = <<>>
                 THEN [res |-> "panic", level |-> level, t0 |-> <<>>, byScore |-> TRUE]
               ELSE [res |-> "ok", level |-> level, t0 |-> <<tt[1]>>, byScore |-> TRUE]
    ELSE IF v.cSeek # <<>>
      THEN [res |-> "ok", level |-> v.cSeek[1].level, t0 |-> <<v.cSeek[1].table>>,
            byScore |-> FALSE]
    ELSE NoInput

\* SeekHintAfterPick clearing the hint it has read
SeekHintCleared(v) == <<>>

\* line 217: atomic.LoadPointer(&v.cSeek) reads the hint and leaves it
SeekHintAfterPick(v) == v.cSeek

\* Compaction built without the version it was planned on
CompactionDropsVersion(v, level, t0, t1, gp, lo, hi) ==
    [version |-> NewVersion, level |-> level, tables |-> <<t0, t1>>, gp |-> gp, gpidx |-> 0,
     seenKey |-> FALSE, overlappedBytes |-> 0, min |-> lo, max |-> hi,
     tPtrs |-> [l \in Levels |-> 0]]

\* &compaction{s: s, version: v, level: level} with its input sets
Compaction(v, level, t0, t1, gp, lo, hi) ==
    [version |-> v, level |-> level, tables |-> <<t0, t1>>, gp |-> gp, gpidx |-> 0,
     seenKey |-> FALSE, overlappedBytes |-> 0, min |-> lo, max |-> hi,
     tPtrs |-> [l \in Levels |-> 0]]

\* Expand recording the range of the inputs it was given, grown or not
ExpandKeepsRange(v, level, t0) ==
    LET vt0  == v.tables[level]
        vt1  == v.tables[level + 1]
        r    == GetRange(t0)
        t1   == GetOverlaps(vt1, UKey(r[1]), UKey(r[2]), <<>>, TRUE)
        a    == GetRange(t0 \o t1)
        exp0 == GetOverlaps(vt0, UKey(a[1]), UKey(a[2]), <<>>, level # 0)
        x    == GetRange(exp0)
        exp1 == GetOverlaps(vt1, UKey(x[1]), UKey(x[2]), <<>>, TRUE)
        grow == /\ Len(t1) > 0
                /\ Len(exp0) > Len(t0)
                /\ TSize(t1) + TSize(exp0) < kExpCompactionMaxBytes
                /\ Len(exp1) = Len(t1)
        ft0  == IF grow THEN exp0 ELSE t0
        ft1  == IF grow THEN exp1 ELSE t1
        fa   == IF grow THEN GetRange(exp0 \o exp1) ELSE a
        gp   == IF level + 2 < kNumLevels
                  THEN GetOverlaps(v.tables[level + 2], UKey(fa[1]), UKey(fa[2]), <<>>, TRUE)
                  ELSE <<>>
    IN  Compaction(v, level, ft0, ft1, gp, r[1], r[2])

\* Expand growing the inputs up to and including the byte ceiling
ExpandAtCeiling(v, level, t0) ==
    LET vt0  == v.tables[level]
        vt1  == v.tables[level + 1]
        r    == GetRange(t0)
        t1   == GetOverlaps(vt1, UKey(r[1]), UKey(r[2]), <<>>, TRUE)
        a    == GetRange(t0 \o t1)
        exp0 == GetOverlaps(vt0, UKey(a[1]), UKey(a[2]), <<>>, level # 0)
        x    == GetRange(exp0)
        exp1 == GetOverlaps(vt1, UKey(x[1]), UKey(x[2]), <<>>, TRUE)
        grow == /\ Len(t1) > 0
                /\ Len(exp0) > Len(t0)
                /\ TSize(t1) + TSize(exp0) <= kExpCompactionMaxBytes
                /\ Len(exp1) = Len(t1)
        ft0  == IF grow THEN exp0 ELSE t0
        ft1  == IF grow THEN exp1 ELSE t1
        fr   == IF grow THEN x ELSE r
        fa   == IF grow THEN GetRange(exp0 \o exp1) ELSE a
        gp   == IF level + 2 < kNumLevels
                  THEN GetOverlaps(v.tables[level + 2], UKey(fa[1]), UKey(fa[2]), <<>>, TRUE)
                  ELSE <<>>
    IN  Compaction(v, level, ft0, ft1, gp, fr[1], fr[2])

\* compaction.expand() (lines 272-316) on level-L inputs t0
Expand(v, level, t0) ==
    LET vt0  == v.tables[level]
        vt1  == v.tables[level + 1]
        r    == GetRange(t0)
        t1   == GetOverlaps(vt1, UKey(r[1]), UKey(r[2]), <<>>, TRUE)
        a    == GetRange(t0 \o t1)
        exp0 == GetOverlaps(vt0, UKey(a[1]), UKey(a[2]), <<>>, level # 0)
        x    == GetRange(exp0)
        exp1 == GetOverlaps(vt1, UKey(x[1]), UKey(x[2]), <<>>, TRUE)
        grow == /\ Len(t1) > 0
                /\ Len(exp0) > Len(t0)
                /\ TSize(t1) + TSize(exp0) < kExpCompactionMaxBytes
                /\ Len(exp1) = Len(t1)
        ft0  == IF grow THEN exp0 ELSE t0
        ft1  == IF grow THEN exp1 ELSE t1
        fr   == IF grow THEN x ELSE r
        fa   == IF grow THEN GetRange(exp0 \o exp1) ELSE a
        gp   == IF level + 2 < kNumLevels
                  THEN GetOverlaps(v.tables[level + 2], UKey(fa[1]), UKey(fa[2]), <<>>, TRUE)
                  ELSE <<>>
    IN  Compaction(v, level, ft0, ft1, gp, fr[1], fr[2])

\* lines 226-235: at level 0 the input is widened to every overlapping
\* level-0 file, then expand()
BuildCompaction(v, level, t0) ==
    IF level = 0
      THEN LET r == GetRange(t0)
           IN  Expand(v, 0, GetOverlaps(v.tables[0], UKey(r[1]), UKey(r[2]), <<>>, FALSE))
      ELSE Expand(v, level, t0)

\* pickCompaction() (lines 195-236)
PickCompaction ==
    /\ phase = "open"
    /\ LET p == PickInitial(stVersion, stCPtrs)
       IN  pick' = IF p.res # "ok"
                     THEN [res |-> p.res, level |-> p.level, first |-> <<>>, c |-> <<>>]
                     ELSE [res |-> "ok", level |-> p.level, first |-> p.t0,
                           c |-> <<BuildCompaction(stVersion, p.level, p.t0)>>]
    /\ stVersion' = [stVersion EXCEPT !.cSeek = SeekHintAfterPick(stVersion)]
    /\ ret' = Ret("pickCompaction", "nil", 0)
    /\ UNCHANGED <<stFileNum, stJournalNum, stSeq, stCPtrs, manifest, manifestFile,
                   storVars, strict, phase, rr, restVars>>

\* a reader that met too many seeks in table t of level l leaves the hint
\* on the current version
SetSeekHint(l, t) ==
    /\ phase = "open"
    /\ l + 1 < kNumLevels
    /\ \E i \in 1 .. Len(stVersion.tables[l]) : stVersion.tables[l][i] = t
    /\ stVersion' = [stVersion EXCEPT !.cSeek = <<[level |-> l, table |-> t]>>]
    /\ ret' = Ret("setSeekHint", "nil", 0)
    /\ UNCHANGED <<stFileNum, stJournalNum, stSeq, stCPtrs, manifest, manifestFile,
                   storVars, strict, phase, pickVars, restVars>>

\* the record that moves level l's compaction pointer to key k
PointerRec(l, k) == [EmptyRecord EXCEPT !.compactionPointers = <<[level |-> l, key |-> k]>>]

\* the caller of pickCompaction() commits the picked file's maximum key as
\* the level's compaction pointer; rr collects the files of the rounds
\* picked by score
AdvancePointer ==
    /\ phase = "open" /\ manifest
    /\ ret.op = "pickCompaction" /\ pick.res = "ok"
    /\ Len(storLog) < MaxAdvance
    /\ CommitOp(PointerRec(pick.level, pick.first[1].max), "ok")
    /\ rr' = IF ScoreAtLeastOne(stVersion.cScore) THEN Append(rr, pick.first[1].num) ELSE rr
    /\ UNCHANGED <<pick, restVars>>

(***************************************************************************)
(* getCompactionRange() and the helpers of a compaction.                   *)
(***************************************************************************)
\* RangeLookup telling getOverlaps that level 0 is sorted and disjoint too
RangeLookupSorted(v, level, umin, umax) ==
    GetOverlaps(v.tables[level], umin, umax, <<>>, TRUE)

\* lines 242-243: the lookup of getCompactionRange(level, min, max)
RangeLookup(v, level, umin, umax) ==
    GetOverlaps(v.tables[level], umin, umax, <<>>, level # 0)

\* getCompactionRange(level, min, max) (lines 239-252); first keeps the
\* lookup's result, the input expand() starts from
GetCompactionRange(level, umin, umax) ==
    /\ phase = "open"
    /\ LET t0 == RangeLookup(stVersion, level, umin, umax)
       IN  pick' = IF Len(t0) = 0
                     THEN [res |-> "nil", level |-> level, first |-> <<>>, c |-> <<>>]
                     ELSE [res |-> "ok", level |-> level, first |-> t0,
                           c |-> <<Expand(stVersion, level, t0)>>]
    /\ ret' = Ret("getCompactionRange", "nil", 0)
    /\ job' = [NoJob EXCEPT !.umin = umin, !.umax = umax]
    /\ UNCHANGED <<sessVars, storVars, strict, phase, rr, closes, concVars>>

\* Trivial without the look at the level-L+1 inputs
TrivialAnyParents(c) ==
    Len(c.tables[1]) = 1 /\ TSize(c.gp) <= kMaxGrandParentOverlapBytes

\* compaction.trivial() (lines 319-321)
Trivial(c) ==
    /\ Len(c.tables[1]) = 1
    /\ Len(c.tables[2]) = 0
    /\ TSize(c.gp) <= kMaxGrandParentOverlapBytes

\* the caller asks whether the compaction it holds is a trivial move
CallTrivial ==
    /\ pick.res = "ok"
    /\ job' = [job EXCEPT !.out = Trivial(pick.c[1])]
    /\ ret' = Ret("trivial", "nil", 0)
    /\ UNCHANGED <<sessVars, storVars, strict, phase, pickVars, closes, concVars>>

\* StopLoop counting the files the first call skips as well
RECURSIVE StopLoopCountsFirst(_, _)
StopLoopCountsFirst(c, key) ==
    IF c.gpidx >= Len(c.gp) THEN c
    ELSE LET gp == c.gp[c.gpidx + 1]
         IN  IF ICompare(key, gp.max) <= 0 THEN c
             ELSE StopLoopCountsFirst([c EXCEPT !.overlappedBytes = @ + gp.size,
                                                !.gpidx = @ + 1], key)

\* the loop of shouldStopBefore (lines 346-354): the cursor moves past the
\* grandparent files that end before key
RECURSIVE StopLoop(_, _)
StopLoop(c, key) ==
    IF c.gpidx >= Len(c.gp) THEN c
    ELSE LET gp == c.gp[c.gpidx + 1]
         IN  IF ICompare(key, gp.max) <= 0 THEN c
             ELSE StopLoop([c EXCEPT !.overlappedBytes =
                                         IF c.seenKey THEN @ + gp.size ELSE @,
                                     !.gpidx = @ + 1], key)

\* compaction.shouldStopBefore(key) (lines 344-363): the compaction after
\* the call and the value returned
ShouldStopBefore(c, key) ==
    LET c1 == [StopLoop(c, key) EXCEPT !.seenKey = TRUE]
    IN  IF c1.overlappedBytes > kMaxGrandParentOverlapBytes
          THEN [c |-> [c1 EXCEPT !.overlappedBytes = 0], out |-> TRUE]
          ELSE [c |-> c1, out |-> FALSE]

\* the writer of the compaction's output is about to add key, which is
\* above every key it has added
CallShouldStopBefore(key) ==
    /\ pick.res = "ok"
    /\ IF job.lastStop = NoKey THEN TRUE ELSE ICompare(key, job.lastStop) > 0
    /\ LET r == ShouldStopBefore(pick.c[1], key)
       IN  /\ pick' = [pick EXCEPT !.c = <<r.c>>]
           /\ job' = [job EXCEPT !.lastStop = key, !.out = r.out,
                                  !.cuts = IF r.out THEN @ + 1 ELSE @]
    /\ ret' = Ret("shouldStopBefore", "nil", 0)
    /\ UNCHANGED <<sessVars, storVars, strict, phase, rr, closes, concVars>>

\* BaseLoop leaving a file behind once key has reached its maximum key
RECURSIVE BaseLoopSkipsMax(_, _, _)
BaseLoopSkipsMax(c, i, key) ==
    IF c.level + 2 + i > kNumLevels - 1 THEN [c |-> c, out |-> TRUE]
    ELSE LET tt == c.version.tables[c.level + 2 + i]
         IN  IF c.tPtrs[i] >= Len(tt) THEN BaseLoopSkipsMax(c, i + 1, key)
             ELSE LET t == tt[c.tPtrs[i] + 1]
                  IN  IF UCompare(key, UKey(t.max)) < 0
                        THEN IF UCompare(key, UKey(t.min)) >= 0
                               THEN [c |-> c, out |-> FALSE]
                               ELSE BaseLoopSkipsMax(c, i + 1, key)
                        ELSE BaseLoopSkipsMax([c EXCEPT !.tPtrs[i] = @ + 1], i, key)

\* the loops of isBaseLevelForKey (lines 327-341) from the i-th level past
\* level+1 on; tPtrs is indexed as in the code, from 0 for level+2
RECURSIVE BaseLoop(_, _, _)
BaseLoop(c, i, key) ==
    IF c.level + 2 + i > kNumLevels - 1 THEN [c |-> c, out |-> TRUE]
    ELSE LET tt == c.version.tables[c.level + 2 + i]
         IN  IF c.tPtrs[i] >= Len(tt) THEN BaseLoop(c, i + 1, key)
             ELSE LET t == tt[c.tPtrs[i] + 1]
                  IN  IF UCompare(key, UKey(t.max)) <= 0
                        THEN IF UCompare(key, UKey(t.min)) >= 0
                               THEN [c |-> c, out |-> FALSE]
                               ELSE BaseLoop(c, i + 1, key)
                        ELSE BaseLoop([c EXCEPT !.tPtrs[i] = @ + 1], i, key)

\* compaction.isBaseLevelForKey(key) (lines 323-342)
IsBaseLevelForKey(c, key) == BaseLoop(c, 0, key)

\* the merge of the compaction's inputs has reached user key key, which is
\* above every user key it has asked about
CallIsBaseLevelForKey(key) ==
    /\ pick.res = "ok"
    /\ key > job.lastBase
    /\ LET r == IsBaseLevelForKey(pick.c[1], key)
       IN  /\ pick' = [pick EXCEPT !.c = <<r.c>>]
           /\ job' = [job EXCEPT !.lastBase = key, !.out = r.out]
    /\ ret' = Ret("isBaseLevelForKey", "nil", 0)
    /\ UNCHANGED <<sessVars, storVars, strict, phase, rr, closes, concVars>>

\* close() (lines 75-86): the table operations are closed, the block cache
\* is purged, and the manifest's journal writer and file writer are closed
\* when the session holds them; no field of the session is cleared
Close ==
    /\ phase \in {"open", "closed"}
    /\ closes.tops < MaxCloses
    /\ closes' = [tops    |-> closes.tops + 1,
                  cache   |-> closes.cache + 1,
                  journal |-> IF manifest THEN closes.journal + 1 ELSE closes.journal,
                  writer  |-> IF manifest THEN closes.writer + 1 ELSE closes.writer]
    /\ phase' = "closed"
    /\ ret' = Ret("close", "nil", 0)
    /\ UNCHANGED <<sessVars, storVars, pickVars, strict, job, concVars>>

\* the process ends and the database is opened again: newSession()
Restart ==
    /\ phase \in {"open", "closed"}
    /\ stFileNum' = 0 /\ stJournalNum' = 0 /\ stSeq' = 0
    /\ stCPtrs' = NoPointers
    /\ stVersion' = NewVersion
    /\ manifest' = FALSE
    /\ manifestFile' = -1
    /\ phase' = "new"
    /\ ret' = Ret("newSession", "nil", 0)
    /\ pick' = NoPick /\ rr' = <<>>
    /\ job' = NoJob /\ closes' = NoCloses
    /\ UNCHANGED <<storVars, strict, concVars>>

IOs == {"ok", "fail"}

Init ==
    /\ stFileNum = 0 /\ stJournalNum = 0 /\ stSeq = 0
    /\ stCPtrs = NoPointers
    /\ stVersion = NewVersion
    /\ manifest = FALSE
    /\ manifestFile = -1
    /\ strict \in BOOLEAN
    /\ storManifest = -1
    /\ storLog = <<>>
    /\ storOther = FALSE
    /\ phase = "new"
    /\ ret = Ret("newSession", "nil", 0)
    /\ pick = NoPick /\ rr = <<>>
    /\ RestInit

Next ==
    \/ Recover("ok", 0)
    \/ \E io \in IOs : Create(io)
    \/ \E r \in CommitRecs, io \in IOs : Commit(r, io)
    \/ Close
    \/ Restart

Spec == Init /\ [][Next]_vars
(***************************************************************************)
(* recover() on what storage may hold: a manifest left by an earlier       *)
(* session, with entries that storage has damaged, or no manifest at all.  *)
(***************************************************************************)
DiskEntry(has, cmp, adds, dels, cptrs, bad) ==
    [has |-> has, comparer |-> cmp, journalNum |-> IF recJournalNum \in has THEN 1 ELSE 0,
     nextNum |-> IF recNextNum \in has THEN 5 ELSE 0, seq |-> IF recSeq \in has THEN 7 ELSE 0,
     cptrs |-> cptrs, adds |-> adds, dels |-> dels, bad |-> bad]

AllFields == {recComparer, recJournalNum, recNextNum, recSeq}

DiskEntries ==
    { DiskEntry(AllFields, CmpName, <<Entry(1, T3)>>, <<>>, <<>>, FALSE),
      DiskEntry(AllFields, "cmpB", <<>>, <<>>, <<>>, FALSE),
      DiskEntry({recComparer, recJournalNum, recNextNum}, CmpName, <<Entry(0, T1)>>, <<>>,
                <<>>, FALSE),
      DiskEntry({recComparer}, CmpName, <<>>, <<>>, <<>>, FALSE),
      DiskEntry({recNextNum}, "", <<Entry(1, T4)>>, <<>>, <<[level |-> 1, key |-> T3.max]>>,
                FALSE),
      DiskEntry({recNextNum}, "", <<>>, <<[level |-> 1, num |-> 3]>>,
                <<[level |-> 1, key |-> T4.max]>>, FALSE),
      DiskEntry({}, "", <<Entry(1, T5)>>, <<[level |-> 1, num |-> 3]>>,
                <<[level |-> 2, key |-> T6.max]>>, TRUE) }

RECURSIVE SeqsUpTo(_, _)
SeqsUpTo(S, n) ==
    IF n = 0 THEN {<<>>}
    ELSE LET shorter == SeqsUpTo(S, n - 1)
         IN  shorter \cup {Append(q, x) : q \in shorter, x \in S}

InitRecover ==
    /\ stFileNum = 0 /\ stJournalNum = 0 /\ stSeq = 0
    /\ stCPtrs = NoPointers
    /\ stVersion = NewVersion
    /\ manifest = FALSE
    /\ manifestFile = -1
    /\ strict \in BOOLEAN
    /\ storManifest \in {-1, 4}
    /\ storLog \in (IF storManifest = -1 THEN {<<>>} ELSE SeqsUpTo(DiskEntries, MaxRecs))
    /\ storOther \in BOOLEAN
    /\ phase = "new"
    /\ ret = Ret("newSession", "nil", 0)
    /\ pick = NoPick /\ rr = <<>>
    /\ RestInit

NextRecover ==
    \/ \E io \in {"ok", "open", "gone"} : Recover(io, 0)
    \/ \E k \in 1 .. MaxRecs + 1 : Recover("read", k)

SpecRecover == InitRecover /\ [][NextRecover]_vars

(***************************************************************************)
(* The planner on the versions commits build.  The session starts as one   *)
(* is right after a recovered session's first commit: a manifest seeded    *)
(* with the table listing of its version and with its compaction pointers. *)
(***************************************************************************)
Level0Orders == {<<>>, <<Entry(0, T1)>>, <<Entry(0, T1), Entry(0, T2)>>,
                 <<Entry(0, T2), Entry(0, T1)>>}

DeeperEntries == <<Entry(1, T3), Entry(1, T4), Entry(1, T5), Entry(2, T6)>>

Range(q) == {q[i] : i \in 1 .. Len(q)}

Choose(es, keep) == SelectSeq(es, LAMBDA e : e \in keep)

\* the pointers earlier compactions may have left: none, or one at level 0
\* or 1, at a file's maximum key or beside it
StartPointers ==
    {NoPointers}
    \cup {[NoPointers EXCEPT ![0] = k] : k \in {<<3, 5>>, <<6, 5>>}}
    \cup {[NoPointers EXCEPT ![1] = k] : k \in {<<4, 1>>, <<4, 3>>, <<6, 2>>}}

InitPick ==
    /\ stFileNum = 1 /\ stJournalNum = 0 /\ stSeq = 0
    /\ stCPtrs \in StartPointers
    /\ \E l0 \in Level0Orders, keep \in SUBSET Range(DeeperEntries) :
           stVersion = Spawn(NewVersion, AddRec(l0 \o Choose(DeeperEntries, keep)))
    /\ manifest = TRUE
    /\ manifestFile = 0
    /\ strict \in {FALSE}
    /\ storManifest = 0
    /\ storLog = <<Encode(VersionFillRecord(stVersion, FillRecord(EmptyRecord, TRUE, 1)))>>
    /\ storOther = TRUE
    /\ phase = "open"
    /\ ret = Ret("commit", "nil", 0)
    /\ pick = NoPick /\ rr = <<>>
    /\ RestInit

NextPick ==
    \/ PickCompaction
    \/ AdvancePointer
    \/ \E e \in Pool : SetSeekHint(e.level, e.file)

SpecPick == InitPick /\ [][NextPick]_vars

(***************************************************************************)
(* A manual compaction: getCompactionRange() on a version with files down  *)
(* to level 4, then the helpers the compaction's driver calls while it     *)
(* merges the inputs in key order.                                         *)
(***************************************************************************)
\* level-2 files, the grandparents of a level-0 compaction
G1 == TFile(7, <<1, 4>>, <<1, 1>>, 1)
G2 == TFile(8, <<2, 6>>, <<2, 4>>, 1)
G3 == TFile(9, <<3, 4>>, <<3, 1>>, 3)
G4 == TFile(10, <<4, 6>>, <<4, 4>>, 1)
G5 == TFile(11, <<5, 4>>, <<6, 1>>, 3)
G6 == TFile(15, <<6, 4>>, <<6, 1>>, 1)
\* a level-0 file beside T2
T0 == TFile(16, <<1, 5>>, <<1, 5>>, 1)
\* level-3 files
H1 == TFile(12, <<1, 3>>, <<2, 3>>, 1)
H2 == TFile(13, <<4, 3>>, <<5, 3>>, 1)
\* a level-4 file
K1 == TFile(14, <<3, 2>>, <<3, 2>>, 1)

JobLevel0 == {<<>>, <<Entry(0, T1)>>, <<Entry(0, T2)>>, <<Entry(0, T1), Entry(0, T2)>>,
              <<Entry(0, T2), Entry(0, T1)>>, <<Entry(0, T2), Entry(0, T0)>>}

JobLevel1 == {<<>>, <<Entry(1, T5)>>, <<Entry(1, T3), Entry(1, T4)>>,
              <<Entry(1, T3), Entry(1, T5)>>,
              <<Entry(1, T3), Entry(1, T4), Entry(1, T5)>>}

JobLevel2 == {<<>>, <<Entry(2, T6)>>, <<Entry(2, T6), Entry(2, G6)>>,
              <<Entry(2, G1), Entry(2, G2)>>,
              <<Entry(2, G1), Entry(2, G2), Entry(2, G3), Entry(2, G4), Entry(2, G5)>>}

JobDeeper == {<<>>, <<Entry(3, H1), Entry(3, H2), Entry(4, K1)>>}

\* the user-key ranges asked for; 7 is above every key of every file
JobRanges == {<<1, 1>>, <<2, 3>>, <<3, 4>>, <<5, 6>>, <<7, 7>>, <<1, 6>>}

JobLevels == 0 .. 2

\* the keys the merge meets
JobUKeys == 1 .. 7

JobIKeys == {<<u, 3>> : u \in JobUKeys}

InitJob ==
    /\ stFileNum = 1 /\ stJournalNum = 0 /\ stSeq = 0
    /\ stCPtrs = NoPointers
    /\ \E l0 \in JobLevel0, l1 \in JobLevel1, l2 \in JobLevel2, d \in JobDeeper :
           stVersion = Spawn(NewVersion, AddRec(l0 \o l1 \o l2 \o d))
    /\ manifest = TRUE
    /\ manifestFile = 0
    /\ strict \in {FALSE}
    /\ storManifest = 0
    /\ storLog = <<Encode(VersionFillRecord(stVersion, FillRecord(EmptyRecord, TRUE, 1)))>>
    /\ storOther = TRUE
    /\ phase = "open"
    /\ ret = Ret("commit", "nil", 0)
    /\ pick = NoPick /\ rr = <<>>
    /\ RestInit

\* One compaction is asked for; the driver asks at once whether it is a
\* trivial move, then merges.  The two helpers of the merge work on fields
\* of their own (gpidx, seenKey, overlappedBytes; tPtrs), so a run follows
\* the calls of one of them.
NextJob ==
    \/ /\ pick.res = "none"
       /\ \E l \in JobLevels, r \in JobRanges : GetCompactionRange(l, r[1], r[2])
    \/ /\ ret.op = "getCompactionRange"
       /\ CallTrivial
    \/ /\ job.lastBase = 0
       /\ \E k \in JobIKeys : CallShouldStopBefore(k)
    \/ /\ job.lastStop = NoKey
       /\ \E k \in JobUKeys : CallIsBaseLevelForKey(k)

SpecJob == InitJob /\ [][NextJob]_vars

(***************************************************************************)
(* The planner beside commits: a compaction is picked or asked for by      *)
(* range, and records are committed while the caller holds it.             *)
(***************************************************************************)
PlanLevel0 == {<<>>, <<Entry(0, T1), Entry(0, T2)>>}

PlanPointers == {NoPointers, [NoPointers EXCEPT ![1] = <<4, 3>>]}

PlanRanges == {<<1, 1>>, <<3, 4>>, <<7, 7>>}

PlanLevels == 0 .. 1

InitPlan ==
    /\ stFileNum = 1 /\ stJournalNum = 0 /\ stSeq = 0
    /\ stCPtrs \in PlanPointers
    /\ \E l0 \in PlanLevel0, deeper \in {<<>>, DeeperEntries} :
           stVersion = Spawn(NewVersion, AddRec(l0 \o deeper))
    /\ manifest = TRUE
    /\ manifestFile = 0
    /\ strict \in {FALSE}
    /\ storManifest = 0
    /\ storLog = <<Encode(VersionFillRecord(stVersion, FillRecord(EmptyRecord, TRUE, 1)))>>
    /\ storOther = TRUE
    /\ phase = "open"
    /\ ret = Ret("commit", "nil", 0)
    /\ pick = NoPick /\ rr = <<>>
    /\ RestInit

NextPlan ==
    \/ PickCompaction
    \/ \E l \in PlanLevels, r \in PlanRanges : GetCompactionRange(l, r[1], r[2])
    \/ SetSeekHint(1, T4)
    \/ \E r \in CommitRecs, io \in IOs : Commit(r, io)

SpecPlan == InitPlan /\ [][NextPlan]_vars

(***************************************************************************)
(* One writer inside commit() and readers of the current version, on a     *)
(* session that create() has just opened.                                  *)
(***************************************************************************)
ConcRecs == {AddRec(<<Entry(0, T1)>>), AddRec(<<Entry(1, T3)>>), DelRec(Entry(1, T3))}

InitConc ==
    /\ stFileNum = 1 /\ stJournalNum = 0 /\ stSeq = 0
    /\ stCPtrs = NoPointers
    /\ stVersion = NewVersion
    /\ manifest = TRUE
    /\ manifestFile = 0
    /\ strict \in {FALSE}
    /\ storManifest = 0
    /\ storLog = <<Encode(VersionFillRecord(stVersion, FillRecord(EmptyRecord, TRUE, 1)))>>
    /\ storOther = FALSE
    /\ phase = "open"
    /\ ret = Ret("create", "nil", 0)
    /\ pick = NoPick /\ rr = <<>>
    /\ RestInit

NextConc ==
    \/ \E r \in ConcRecs : CommitSpawn(r)
    \/ \E io \in IOs : CommitWrite(io)
    \/ CommitReturn
    \/ \E p \in Readers : ReadVersion(p)

SpecConc == InitConc /\ [][NextConc]_vars

(***************************************************************************)
(* Properties of commit().                                                 *)
(***************************************************************************)
\* C1: a commit whose manifest write fails returns the error and leaves the
\* current version as it was; a commit whose write succeeds makes the
\* candidate, the previous current version plus r, the current version.
C1_CommitPublishesOnSuccessOnly ==
    [][\A r \in CommitRecs : \A io \in IOs :
          Commit(r, io) =>
              /\ (io # "ok" => ret'.err # "nil")
              /\ (ret'.err # "nil" => stVersion' = stVersion)
              /\ (ret'.err = "nil" => stVersion' = Spawn(stVersion, r))]_vars

\* a commit has failed on a session that had already published tables
C1_Witness ==
    /\ ret.op = "commit" /\ ret.err # "nil"
    /\ manifest /\ Len(storLog) >= 2
    /\ stVersion.tables # EmptyTables

\* C2: whatever commits succeeded or failed, replaying the durable manifest
\* from scratch (a fresh session's recover(): every record staged, one
\* finish) gives per level the file set of the current version.
C2_ReplayEqualsIncremental ==
    (phase = "open" /\ storManifest # -1) =>
        LET out == Replay(storLog, strict, 0, NewVersion, NoPointers)
        IN  /\ out.err = "nil"
            /\ TableSets(StagingFinish(out.staging)) = TableSets(stVersion)

\* the manifest was seeded with a table listing and a deletion, then
\* appended to, a deletion included
C2_Witness ==
    /\ phase = "open" /\ manifest
    /\ Len(storLog) = 3
    /\ storLog[1].adds # <<>>
    /\ storLog[1].dels # <<>>
    /\ storLog[3].dels # <<>>
    /\ stVersion.tables[0] # <<>>

(***************************************************************************)
(* Properties of recover().                                                *)
(***************************************************************************)
GoodIndexes(log) == {i \in 1 .. Len(log) : ~ log[i].bad}

BadIndexes(log) == {i \in 1 .. Len(log) : log[i].bad}

FirstBad(log) == CHOOSE i \in BadIndexes(log) : \A j \in BadIndexes(log) : i <= j

Supplied(log, f) == \E i \in GoodIndexes(log) : f \in log[i].has

\* the comparer name of the last entry that carries one
RecordedComparer(log) ==
    LET is == {i \in GoodIndexes(log) : recComparer \in log[i].has}
    IN  log[CHOOSE i \in is : \A j \in is : j <= i].comparer

\* the compaction pointers of the good entries among the first n, in order
RECURSIVE GoodPointers(_, _)
GoodPointers(log, n) ==
    IF n = 0 THEN <<>>
    ELSE GoodPointers(log, n - 1) \o (IF log[n].bad THEN <<>> ELSE log[n].cptrs)

\* per level the key of the last pointer of ps for it, nil when none
LastPointers(ps) ==
    [l \in Levels |->
        LET is == {i \in 1 .. Len(ps) : ps[i].level = l}
        IN  IF is = {} THEN NoKey ELSE ps[CHOOSE i \in is : \A j \in is : j <= i].key]

\* the good entries applied one at a time, each by a spawn of its own
RECURSIVE OneByOne(_, _)
OneByOne(log, n) ==
    IF n = 0 THEN NewVersion
    ELSE IF log[n].bad THEN OneByOne(log, n - 1)
    ELSE Spawn(OneByOne(log, n - 1),
               [EmptyRecord EXCEPT !.addedTables = log[n].adds, !.deletedTables = log[n].dels])

NothingInstalled == stVersion = NewVersion /\ manifestFile = -1 /\ stFileNum = 0

\* recover() got to the end of the manifest: no storage error, no abort
ReadToEnd ==
    /\ ret.op = "recover" /\ storManifest # -1
    /\ ret.err \in {"nil", "ErrManifest: missing comparer name", "ErrManifest: comparer mismatch",
                    "ErrManifest: missing next file number",
                    "ErrManifest: missing journal file number", "ErrManifest: missing seq number"}

\* C3: with no manifest, recover() returns the manifest-missing error when
\* storage holds another file and the plain not-exist error only when it
\* holds none; either way no version is installed.
C3_MissingManifest ==
    (ret.op = "recover" /\ storManifest = -1) =>
        /\ (storOther => ret.err = "ErrManifest: manifest file missing")
        /\ (~ storOther => ret.err = "os.ErrNotExist")
        /\ NothingInstalled

C3_Witness ==
    ret.op = "recover" /\ storManifest = -1 /\ storOther
    /\ ret.err = "ErrManifest: manifest file missing"

\* C4: at end-of-stream, strict or lenient, a required field that no record
\* supplied, or a recorded comparer name other than the active one, makes
\* recover() return a manifest error with no version installed, no manifest
\* file set and the file-number counter unchanged.
C4_IncompleteOrMismatch ==
    (ReadToEnd /\ (\/ \E f \in AllFields : ~ Supplied(storLog, f)
                   \/ RecordedComparer(storLog) # CmpName)) =>
        /\ ret.err \in ManifestErrors
        /\ NothingInstalled

\* lenient replay ended with only the sequence number missing
C4_Witness ==
    /\ ReadToEnd /\ ~ strict
    /\ ~ Supplied(storLog, recSeq)
    /\ \A f \in AllFields \ {recSeq} : Supplied(storLog, f)
    /\ RecordedComparer(storLog) = CmpName
    /\ ret.err = "ErrManifest: missing seq number"

\* C5: under strict validation the first record that fails to decode ends
\* recover() with a manifest error: nothing after it is read, the saved
\* pointers are those of the records before it, no version is installed.
C5_StrictAborts ==
    (/\ ret.op = "recover" /\ storManifest # -1 /\ strict
     /\ BadIndexes(storLog) # {}
     /\ ret.err \notin {"open error", "read error", "os.ErrNotExist",
                        "ErrManifest: manifest file missing"}) =>
        /\ ret.err = "ErrManifest: decode"
        /\ ret.read = FirstBad(storLog)
        /\ stCPtrs = LastPointers(GoodPointers(storLog, FirstBad(storLog) - 1))
        /\ NothingInstalled

\* the failing record came after one with a pointer and before another
C5_Witness ==
    /\ ret.op = "recover" /\ strict /\ ret.err = "ErrManifest: decode"
    /\ Len(storLog) = 3 /\ BadIndexes(storLog) = {2}
    /\ storLog[1].cptrs # <<>> /\ storLog[3].cptrs # <<>>

\* C6: under lenient validation a record that fails to decode adds no
\* file, deletes none and moves no pointer, and every record after it is
\* still read and folded in log order.
C6_LenientSkips ==
    (ReadToEnd /\ ~ strict) =>
        /\ ret.read = Len(storLog)
        /\ stCPtrs = LastPointers(GoodPointers(storLog, Len(storLog)))
        /\ (ret.err = "nil" =>
                TableSets(stVersion) = TableSets(OneByOne(storLog, Len(storLog))))

\* a record was skipped between two that were folded, and recovery succeeded
C6_Witness ==
    /\ ReadToEnd /\ ~ strict /\ ret.err = "nil"
    /\ Len(storLog) = 3 /\ BadIndexes(storLog) = {2}
    /\ storLog[3].adds # <<>>

\* C19: if recover() returns an error, whichever it is, the current version,
\* the file-number counter and the manifest file handle are what they were
\* before the call, even when records read before the failure were already
\* folded into the staging area.
C19_ErrorInstallsNothing ==
    [][(ret'.op = "recover" /\ ret'.err # "nil") =>
          /\ stVersion' = stVersion
          /\ stFileNum' = stFileNum
          /\ manifestFile' = manifestFile]_vars

\* the third read of the manifest failed after two records, each adding a
\* table and one moving a pointer, had been folded
C19_Witness ==
    /\ ret.op = "recover" /\ ret.err = "read error" /\ ret.read = 2
    /\ storLog[1].adds # <<>> /\ storLog[2].adds # <<>>
    /\ stCPtrs # NoPointers
    /\ stVersion = NewVersion

(***************************************************************************)
(* Properties of pickCompaction().                                         *)
(***************************************************************************)
\* the state pickCompaction() has just returned in
JustPicked == ret.op = "pickCompaction"

TopScore == ScoreAtLeastOne(stVersion.cScore)

\* C7: with a top score of at least 1 pickCompaction() returns a compaction,
\* whatever the level's pointer and whether or not a hint is set.
C7_ScorePicksSomething ==
    (JustPicked /\ TopScore) =>
        /\ pick.res = "ok"
        /\ Len(pick.c) = 1
        /\ pick.c[1].level = stVersion.cLevel
        /\ pick.c[1].tables[1] # <<>>

\* the pointer was at or past every file of the level and a hint was set
C7_Witness ==
    /\ JustPicked /\ TopScore /\ pick.res = "ok"
    /\ stVersion.cSeek # <<>>
    /\ stCPtrs[stVersion.cLevel] # NoKey
    /\ \A i \in 1 .. Len(stVersion.tables[stVersion.cLevel]) :
           ICompare(stVersion.tables[stVersion.cLevel][i].max, stCPtrs[stVersion.cLevel]) <= 0

\* the file the claim names: the first in level order whose maximum key is
\* above the pointer, the first of the level when the pointer is nil or
\* at or past every maximum
ExpectedFirst(tt, cp) ==
    LET above == {i \in 1 .. Len(tt) : ICompare(tt[i].max, cp) > 0}
    IN  IF cp = NoKey \/ above = {} THEN tt[1]
        ELSE tt[CHOOSE i \in above : \A j \in above : i <= j]

\* C8: with a top score of at least 1 the file initially selected is the
\* first in level order whose maximum internal key is strictly above the
\* level's pointer; the first file when the pointer is unset; the first
\* file again when no maximum key is above the pointer.
C8_InitialFile ==
    (JustPicked /\ TopScore) =>
        /\ pick.level = stVersion.cLevel
        /\ pick.first = <<ExpectedFirst(stVersion.tables[stVersion.cLevel],
                                        stCPtrs[stVersion.cLevel])>>

\* the pointer shares its user key with a file's maximum key, sorts before
\* it, and the file picked is neither the first nor the last of the level
C8_Witness ==
    /\ JustPicked /\ TopScore /\ stVersion.cLevel = 1
    /\ Len(stVersion.tables[1]) = 3
    /\ stCPtrs[1] = <<4, 3>>
    /\ pick.first = <<T4>>

MaxKeysIncrease(tt) == \A i \in 1 .. Len(tt) - 1 : ICompare(tt[i].max, tt[i + 1].max) < 0

\* any N consecutive rounds picked N different files of the level
RoundRobin(tt) ==
    /\ \A i \in 1 .. Len(rr) : rr[i] \in Nums(tt)
    /\ \A i, j \in 1 .. Len(rr) : (i < j /\ j - i < Len(tt)) => rr[i] # rr[j]

\* C9 as stated, for any level: N consecutive picks, the pointer set to the
\* picked file's maximum key after each, visit each of the level's N files
\* once before any file twice.
C9_AnyLevel == TopScore => RoundRobin(stVersion.tables[stVersion.cLevel])

\* C9 amended: the same for a level whose files' maximum keys strictly
\* increase in level order, as they do at every level from 1 on.
C9_SortedLevel ==
    (TopScore /\ MaxKeysIncrease(stVersion.tables[stVersion.cLevel])) =>
        RoundRobin(stVersion.tables[stVersion.cLevel])

\* four rounds over a level of three files, started in the middle
C9_Witness ==
    /\ TopScore /\ stVersion.cLevel = 1
    /\ Len(stVersion.tables[1]) = 3
    /\ rr = <<5, 3, 4, 5>>

\* a pick that finds the top score below 1 and a hint set
HintPick == ret'.op = "pickCompaction" /\ ~ TopScore /\ stVersion.cSeek # <<>>

UsesHint(p, hint) ==
    p.res = "ok" /\ p.level = hint[1].level /\ p.first = <<hint[1].table>>

\* C10 as stated: the pick uses the hint as its sole initial input and
\* clears it, so that a second pick on the same version returns nothing.
C10_HintConsumed ==
    [][HintPick =>
          /\ UsesHint(pick', stVersion.cSeek)
          /\ stVersion'.cSeek = <<>>
          /\ PickInitial(stVersion', stCPtrs').res = "nil"]_vars

\* C10 amended: the pick uses the hint as its sole initial input and leaves
\* it on the version, so that a second pick on the same version, no hint
\* set in between, starts from the same file and level.
C10_HintKept ==
    [][HintPick =>
          /\ UsesHint(pick', stVersion.cSeek)
          /\ stVersion'.cSeek = stVersion.cSeek
          /\ PickInitial(stVersion', stCPtrs').res = "ok"
          /\ PickInitial(stVersion', stCPtrs').t0 = pick'.first
          /\ PickInitial(stVersion', stCPtrs').level = pick'.level]_vars

\* a pick made from a hint at a level other than the top-score level
C10_Witness ==
    /\ JustPicked /\ ~ TopScore /\ pick.res = "ok"
    /\ stVersion.cSeek # <<>>
    /\ pick.level = 1 /\ pick.first = <<T4>>
    /\ stVersion.tables[0] # <<>>

\* C20: pickCompaction() and getCompactionRange() leave the current
\* version, the compaction pointers and the counters as they were; the
\* compaction they return refers to the version that was current at the
\* call and takes its inputs from it; a later commit changes neither that
\* version nor the input sets of the compaction.
C20_PlanningChangesNothing ==
    [][/\ ret'.op \in {"pickCompaction", "getCompactionRange"} =>
             /\ UNCHANGED <<stVersion, stCPtrs, stFileNum, stJournalNum, stSeq>>
             /\ pick'.res = "ok" =>
                    /\ pick'.c[1].version = stVersion
                    /\ Range(pick'.c[1].tables[1])
                           \subseteq Range(stVersion.tables[pick'.c[1].level])
                    /\ Range(pick'.c[1].tables[2])
                           \subseteq Range(stVersion.tables[pick'.c[1].level + 1])
       /\ (ret'.op = "commit" /\ pick.res = "ok") =>
             /\ pick'.c[1].version = pick.c[1].version
             /\ pick'.c[1].tables = pick.c[1].tables]_vars

\* a commit has deleted, from the current version, an input file of the
\* compaction the caller holds
C20_Witness ==
    /\ pick.res = "ok" /\ ret.op = "commit" /\ ret.err = "nil"
    /\ pick.c[1].version # stVersion
    /\ \E t \in Range(pick.c[1].tables[1]) :
           t \notin Range(stVersion.tables[pick.c[1].level])

(***************************************************************************)
(* Properties of getCompactionRange().                                     *)
(***************************************************************************)
\* the state getCompactionRange() has just returned in
JustRanged == ret.op = "getCompactionRange"

\* the user-key range of t and [lo, hi] have a key in common
Intersects(t, lo, hi) == UKey(t.min) <= hi /\ lo <= UKey(t.max)

Intersecting(tt, lo, hi) == {t \in Range(tt) : Intersects(t, lo, hi)}

SetMin(S) == CHOOSE x \in S : \A y \in S : x <= y

SetMax(S) == CHOOSE x \in S : \A y \in S : y <= x

\* the files that intersect [lo, hi] once it is widened, again and again,
\* to cover every file that intersects it
RECURSIVE Widened(_, _, _)
Widened(tt, lo, hi) ==
    LET S   == Intersecting(tt, lo, hi)
        lo2 == SetMin({lo} \cup {UKey(t.min) : t \in S})
        hi2 == SetMax({hi} \cup {UKey(t.max) : t \in S})
    IN  IF lo2 = lo /\ hi2 = hi THEN S ELSE Widened(tt, lo2, hi2)

\* the files of the asked level that intersect the asked range
Asked == Intersecting(stVersion.tables[pick.level], job.umin, job.umax)

\* C11 as stated, for every level: the lookup's result holds every file of
\* the level that intersects [min, max] and no other file, and no
\* compaction is returned exactly when no file intersects the range.
C11_ExactAtEveryLevel ==
    JustRanged =>
        /\ Range(pick.first) = Asked
        /\ (pick.res = "nil") = (Asked = {})

\* C11 amended: the same at levels 1 and above; at level 0 the result holds
\* every file that intersects [min, max] and, besides, every file that
\* intersects the range as widened to cover the files found.
C11_WidenedAtLevel0 ==
    JustRanged =>
        /\ Asked \subseteq Range(pick.first)
        /\ pick.level # 0 => Range(pick.first) = Asked
        /\ pick.level = 0 =>
               Range(pick.first) = Widened(stVersion.tables[0], job.umin, job.umax)
        /\ Cardinality(Range(pick.first)) = Len(pick.first)
        /\ (pick.res = "nil") = (Asked = {})

\* a level-0 lookup whose range was widened twice and took in a file that
\* does not intersect the range asked for
C11_Witness ==
    /\ JustRanged /\ pick.level = 0 /\ pick.res = "ok"
    /\ job.umin = 5 /\ job.umax = 6
    /\ pick.first = <<T2, T1>>

(***************************************************************************)
(* Properties of the helpers of a compaction.                              *)
(***************************************************************************)
\* the compaction the caller holds
Held == pick.c[1]

\* one level-L input file and no level-L+1 input file
SingleInput == Len(Held.tables[1]) = 1 /\ Len(Held.tables[2]) = 0

\* C12 as stated: trivial() is true if and only if there is exactly one
\* level-L input file, no level-L+1 input file, and the grandparent overlap
\* is strictly below the ceiling; false when it equals the ceiling.
C12_BelowCeiling ==
    ret.op = "trivial" =>
        (job.out <=> (SingleInput /\ TSize(Held.gp) < kMaxGrandParentOverlapBytes))

\* C12 amended: the same with a grandparent overlap of at most the ceiling;
\* true when it equals the ceiling.
C12_AtMostCeiling ==
    ret.op = "trivial" =>
        (job.out <=> (SingleInput /\ TSize(Held.gp) <= kMaxGrandParentOverlapBytes))

\* a trivial move with two grandparent files whose sizes add up to the ceiling
C12_Witness ==
    /\ ret.op = "trivial" /\ job.out
    /\ Len(Held.gp) = 2
    /\ TSize(Held.gp) = kMaxGrandParentOverlapBytes

(***************************************************************************)
(* Properties of close().                                                  *)
(***************************************************************************)
\* C14: close() is idempotent: a second close() leaves the session and its
\* collaborators as the first call left them and closes neither the
\* manifest's journal writer nor the manifest's file writer a second time.
C14_CloseIdempotent ==
    [][(phase = "closed" /\ ret'.op = "close") =>
          /\ UNCHANGED <<sessVars, storVars>>
          /\ closes'.journal = closes.journal
          /\ closes'.writer = closes.writer]_vars

(***************************************************************************)
(* Properties of expand().                                                 *)
(***************************************************************************)
\* k is the smallest minimum key of the files tt
IsLowest(k, tt) ==
    /\ \E t \in Range(tt) : t.min = k
    /\ \A t \in Range(tt) : ICompare(k, t.min) <= 0

\* k is the largest maximum key of the files tt
IsHighest(k, tt) ==
    /\ \E t \in Range(tt) : t.max = k
    /\ \A t \in Range(tt) : ICompare(k, t.max) >= 0

\* expand() took the grown level-L input set
Grown == Len(Held.tables[1]) > Len(pick.first)

\* C15: after expand(), growth adopted or not, the level-L+1 input set is
\* exactly the set of the version's level-L+1 files whose user-key range
\* overlaps the user-key range of the final level-L input set, and the
\* compaction's min and max are the range of that final set.
C15_ParentsOfFinalInputs ==
    pick.res = "ok" =>
        /\ IsLowest(Held.min, Held.tables[1])
        /\ IsHighest(Held.max, Held.tables[1])
        /\ Range(Held.tables[2]) =
               Intersecting(Held.version.tables[Held.level + 1],
                            UKey(Held.min), UKey(Held.max))
        /\ Cardinality(Range(Held.tables[2])) = Len(Held.tables[2])

\* the growth step took a second level-1 file in, under the same parent
C15_Witness ==
    /\ JustRanged /\ pick.level = 1
    /\ pick.first = <<T3>>
    /\ Held.tables = <<(<<T3, T4>>), (<<T6>>)>>
    /\ Held.min = T3.min /\ Held.max = T4.max

\* the user-key range the files S cover
LowKey(S) == SetMin({UKey(t.min) : t \in S})

HighKey(S) == SetMax({UKey(t.max) : t \in S})

\* the files of level l of v that a lookup over the range of S finds
Lookup(v, l, S) ==
    IF l = 0 THEN Widened(v.tables[0], LowKey(S), HighKey(S))
    ELSE Intersecting(v.tables[l], LowKey(S), HighKey(S))

RECURSIVE SetSize(_)
SetSize(S) == IF S = {} THEN 0 ELSE LET t == CHOOSE x \in S : TRUE IN t.size + SetSize(S \ {t})

\* the level-L inputs expand() was given, the parent set they find, the
\* grown level-L set, and the parent set the grown set finds
GivenInputs == Range(pick.first)

GivenParents == Intersecting(Held.version.tables[Held.level + 1],
                             LowKey(GivenInputs), HighKey(GivenInputs))

GrownInputs == Lookup(Held.version, Held.level, GivenInputs \cup GivenParents)

GrownParents == Intersecting(Held.version.tables[Held.level + 1],
                             LowKey(GrownInputs), HighKey(GrownInputs))

\* the conditions of the growth step other than the one on the size
GrowthFits ==
    /\ GivenParents # {}
    /\ Cardinality(GrownInputs) > Cardinality(GivenInputs)
    /\ GrownParents = GivenParents

CombinedSize == SetSize(GrownInputs) + SetSize(GivenParents)

\* expand() ends with the inputs it was given or with the grown set
OnePass ==
    /\ Range(Held.tables[1]) \in {GivenInputs, GrownInputs}
    /\ Grown => Range(Held.tables[1]) = GrownInputs

\* C16 as stated: the grown set is adopted exactly when the initial parent
\* set is not empty, the grown set has more files, the parent set of the
\* grown set is the initial one, and the combined size does not exceed the
\* ceiling, a combined size equal to the ceiling included; the growth is
\* attempted once.
C16_UpToCeiling ==
    JustRanged /\ pick.res = "ok" =>
        /\ Grown <=> (GrowthFits /\ CombinedSize <= kExpCompactionMaxBytes)
        /\ OnePass

\* C16 amended: the same with a combined size strictly below the ceiling;
\* a combined size equal to the ceiling leaves the inputs as given.
C16_BelowCeiling ==
    JustRanged /\ pick.res = "ok" =>
        /\ Grown <=> (GrowthFits /\ CombinedSize < kExpCompactionMaxBytes)
        /\ OnePass

\* the grown set was adopted with a combined size one below the ceiling
C16_Witness ==
    /\ JustRanged /\ pick.res = "ok" /\ Grown
    /\ GrowthFits
    /\ CombinedSize = kExpCompactionMaxBytes - 1

\* the grandparent files from the cursor on that end before key
SkippedBy(c, key) ==
    {i \in (c.gpidx + 1) .. Len(c.gp) :
        \A j \in (c.gpidx + 1) .. i : ICompare(key, c.gp[j].max) > 0}

RECURSIVE SizeSum(_, _)
SizeSum(gp, is) ==
    IF is = {} THEN 0
    ELSE LET i == CHOOSE x \in is : TRUE IN gp[i].size + SizeSum(gp, is \ {i})

\* what the counter holds once the call has skipped its files: nothing is
\* added by the first call
Accumulated(c, key) ==
    IF c.seenKey THEN c.overlappedBytes + SizeSum(c.gp, SkippedBy(c, key))
    ELSE c.overlappedBytes

\* C13: over calls of shouldStopBefore with increasing keys, the sizes of
\* the grandparent files the first call skips are not counted, those the
\* later calls skip are added up; a call returns true exactly when the sum
\* is above the ceiling at that call, and then leaves the counter at zero.
C13_OverlapBudget ==
    [][ret'.op = "shouldStopBefore" =>
          LET c   == pick.c[1]
              c2  == pick'.c[1]
              key == job'.lastStop
              acc == Accumulated(c, key)
          IN  /\ (~ c.seenKey) => (acc = 0 /\ ~ job'.out)
              /\ job'.out <=> (acc > kMaxGrandParentOverlapBytes)
              /\ c2.overlappedBytes = IF job'.out THEN 0 ELSE acc
              /\ c2.gpidx = c.gpidx + Cardinality(SkippedBy(c, key))
              /\ c2.seenKey]_vars

\* the second cut of one compaction, made once the cursor has passed all
\* five of its grandparent files
C13_Witness ==
    /\ ret.op = "shouldStopBefore" /\ job.out /\ job.cuts = 2
    /\ Held.gpidx = 5 /\ Held.overlappedBytes = 0

\* the levels deeper than the compaction's level + 1
DeeperLevels(c) == (c.level + 2) .. (kNumLevels - 1)

\* some file of a deeper level has key within its user-key range
InDeeperFile(c, key) ==
    \E l \in DeeperLevels(c) : \E t \in Range(c.version.tables[l]) :
        UKey(t.min) <= key /\ key <= UKey(t.max)

\* C17: over calls of isBaseLevelForKey with strictly increasing user
\* keys, a call returns false if and only if some file of the version at a
\* level deeper than L+1 has the key within its range; no cursor moves
\* back and none goes past the number of files of its level.
C17_BaseLevel ==
    [][ret'.op = "isBaseLevelForKey" =>
          LET c   == pick.c[1]
              c2  == pick'.c[1]
              key == job'.lastBase
          IN  /\ (~ job'.out) <=> InDeeperFile(c, key)
              /\ \A l \in DeeperLevels(c) :
                     /\ c2.tPtrs[l - c.level - 2] >= c.tPtrs[l - c.level - 2]
                     /\ c2.tPtrs[l - c.level - 2] <= Len(c.version.tables[l])]_vars

\* key 3 is in no file of levels 2 and 3, whose cursors have moved past the
\* files below it, and is the maximum key of a level-4 file
C17_Witness ==
    /\ ret.op = "isBaseLevelForKey" /\ ~ job.out
    /\ job.lastBase = 3 /\ Held.level = 0
    /\ Held.tPtrs[0] = 2 /\ Held.tPtrs[1] = 1 /\ Held.tPtrs[2] = 0

(***************************************************************************)
(* Properties of the current version under concurrent readers.             *)
(***************************************************************************)
\* the places of version v in the order of publication
PublishedAt(v) == {i \in 1 .. Len(published) : published[i] = v}

\* C18: with one writer inside commit() and readers of the current
\* version, every read returns the initial version or the candidate of a
\* commit that has succeeded, never the candidate of a commit whose write
\* failed or has not returned, and what one reader reads follows the order
\* of publication.
C18_ReadsArePublished ==
    [][\A p \in Readers :
          seen'[p] # seen[p] =>
              /\ PublishedAt(seen'[p][1]) # {}
              /\ seen[p] # <<>> =>
                     \E i \in PublishedAt(seen[p][1]) :
                         \E j \in PublishedAt(seen'[p][1]) : i <= j]_vars

\* a commit's write has failed and its candidate is still in the writer's
\* hands; one reader holds the initial version, the other the version a
\* commit has published since
C18_Witness ==
    /\ wr.pc = "written" /\ wr.err # "nil"
    /\ PublishedAt(wr.nv) = {}
    /\ Len(published) = 2
    /\ seen[1] = <<published[1]>>
    /\ seen[2] = <<published[2]>>
    /\ published[1] # published[2]
====
